---- MODULE Spec2Model ----
(***************************************************************************)
(* Model of the Analytic differentiator of OpenMDAO                        *)
(* (openmdao.lib.differentiators.analytic.Analytic).                       *)
(*                                                                         *)
(* The differentiator walks a hierarchy of workflow nodes (terminal        *)
(* components, sub-assemblies, nested drivers) twice: _edge_counter        *)
(* enumerates the unknowns into var_list, _assemble_direct fills LHS and   *)
(* RHS, and _solve solves LHS X = RHS and forms the gradient.              *)
(*                                                                         *)
(* Names are the dotted strings the code builds.  Matrices are functions   *)
(* over 0..n-1 as numpy indexes them.  Local derivatives are integers and  *)
(* the dense solve is carried out in exact rational arithmetic.            *)
(* A raised Python exception is recorded in err and ends the operation in  *)
(* the state the code has reached when it is raised.                       *)
(***************************************************************************)
EXTENDS Integers, Sequences, FiniteSets, TLC

VARIABLES
    wid,    \* which model hierarchy the differentiator is attached to
    mode,   \* Analytic.mode
    self,   \* the Analytic instance: a record of its attributes
            \*   var_list, LHS, RHS, EQS, EQS_zero, gradient (entries are
            \*   rationals <<num, den>>), param_names, function_names,
            \*   edge_dicts (its keys), and err: the exception the last
            \*   operation raised, "" when none
    last    \* history: the last operation, the steps it ran, what it returned

vars == <<wid, mode, self, last>>

-----------------------------------------------------------------------------
(* Bounds *)

\* local partial derivatives take the values 2..MaxDeriv
MaxDeriv == 3

DerivVals == 2..MaxDeriv

-----------------------------------------------------------------------------
(* Exceptions *)

ErrOnlySolvers == "NotImplementedError: Only nested solvers are supported"

ErrNestedDrivers == "NotImplementedError: Nested drivers"

ErrNoIndep == "NotImplementedError: No independent in solver equation."

ErrValue == "ValueError"

ErrIndex == "IndexError"

ErrKey == "KeyError"

ErrUnbound == "UnboundLocalError"

ErrSingular == "LinAlgError: Singular matrix"

-----------------------------------------------------------------------------
(* Python list and numpy helpers *)

\* list.index, 0-based; -1 stands for the ValueError of an absent element
Index(seq, x) ==
    IF \E i \in 1..Len(seq) : seq[i] = x
    THEN (CHOOSE i \in 1..Len(seq) :
              seq[i] = x /\ \A j \in 1..(i-1) : seq[j] # x) - 1
    ELSE -1

Contains(seq, x) == \E i \in 1..Len(seq) : seq[i] = x

\* numpy.zeros((n, m))
Zeros(n, m) == [i \in 0..(n-1) |-> [j \in 0..(m-1) |-> 0]]

NRows(M) == Cardinality(DOMAIN M)

InRange(M, i, j) == i \in DOMAIN M /\ j \in DOMAIN M[i]

-----------------------------------------------------------------------------
(* The model hierarchy: workflow nodes, connections, parameters, functions. *)
(* These are the collaborators the differentiator queries; it never        *)
(* changes them.                                                           *)

\* A workflow node.  kind is "comp" (terminal component), "assy" (Assembly)
\* or "driver" (Driver).  ins/outs are the node's pair in the edge dictionary
\* of the enclosing driver scope.  hasd: the component has
\* calculate_first_derivatives.  solver: the driver implements ISolver.
\* runonce: the assembly's driver is a Run_Once.  dpath/wf: pathname and
\* workflow of the driver scope the node opens (the driver itself, or the
\* assembly's driver).  params/eqs: the solver's parameters and, for each of
\* its equality constraints, the list built from the union of the variables
\* its two sides reference.  conn/oconn: the assembly's inner connections to
\* component inputs and to its boundary outputs.
BaseNode ==
    [kind |-> "comp", name |-> "", path |-> "", ins |-> <<>>, outs |-> <<>>,
     hasd |-> TRUE, solver |-> FALSE, runonce |-> TRUE, dpath |-> "",
     wf |-> <<>>, params |-> <<>>, eqs |-> <<>>, conn |-> <<>>, oconn |-> <<>>]

Comp(name, path, ins, outs) ==
    [BaseNode EXCEPT !.name = name, !.path = path, !.ins = ins, !.outs = outs]

NoDerivComp(name, path, ins, outs) ==
    [Comp(name, path, ins, outs) EXCEPT !.hasd = FALSE]

DriverNode(name, path, isSolver, wf, params, eqs) ==
    [BaseNode EXCEPT !.kind = "driver", !.name = name, !.path = path,
                     !.solver = isSolver, !.dpath = path, !.wf = wf,
                     !.params = params, !.eqs = eqs]

AssyNode(name, path, ins, outs, runonce, wf, conn, oconn) ==
    [BaseNode EXCEPT !.kind = "assy", !.name = name, !.path = path,
                     !.ins = ins, !.outs = outs, !.runonce = runonce,
                     !.dpath = path \o ".driver", !.wf = wf,
                     !.conn = conn, !.oconn = oconn]

\* A connection: the source variable the connecting expression references,
\* the derivative of that expression with respect to it, and the unit
\* conversion factor (1 when the source carries no unit).
Src(src, dexpr, k) == [src |-> src, dexpr |-> dexpr, k |-> k]

CompA == Comp("a", "a", <<"x">>, <<"y">>)

CompB == Comp("b", "b", <<"x">>, <<"y">>)

CompPX(name) == Comp(name, name, <<"p", "x">>, <<"y">>)

\* sub-assembly "sub": boundary input in, inner component c, boundary output out
SubAssy(runonce, wf) ==
    AssyNode("sub", "sub", <<"in">>, <<"out">>, runonce, wf,
             ("c.x" :> Src("in", 1, 1)), ("out" :> Src("c.y", 1, 1)))

\* the same sub-assembly with a unit conversion of factor 2 on both of its
\* inner connections
SubAssyUnits ==
    AssyNode("sub", "sub", <<"in">>, <<"out">>, TRUE,
             <<Comp("c", "sub.c", <<"x">>, <<"y">>)>>,
             ("c.x" :> Src("in", 1, 2)), ("out" :> Src("c.y", 1, 2)))

SubC == Comp("c", "sub.c", <<"x">>, <<"y">>)

Objective(name) == [name |-> name, grad |-> <<[var |-> name, val |-> 1]>>]

\* A constraint: the gradients of its two sides and its comparator
Constraint(name, lhs, rhs, comparator) ==
    [name |-> name, lhs |-> lhs, rhs |-> rhs, comparator |-> comparator]

\* the gradients of the two sides of the constraints of the "constrained"
\* model, as evaluate_gradient returns them: variable -> value
ConLhs == <<[var |-> "b.y", val |-> 2], [var |-> "a.x", val |-> 3]>>

ConRhs == <<[var |-> "b.y", val |-> 5], [var |-> "a.y", val |-> 1]>>

\* order: the iteration order of the edge dictionaries, "workflow" or "sorted"
WorldC(name, wf, conn, params, objs, cons) ==
    [name |-> name, top |-> [dpath |-> "driver", wf |-> wf], conn |-> conn,
     params |-> params, objs |-> objs, cons |-> cons, order |-> "workflow"]

SortedDicts(w) == [w EXCEPT !.order = "sorted", !.name = @ \o "_sorted"]

World(name, wf, conn, params, objs) ==
    WorldC(name, wf, conn, params, objs, <<>>)

Worlds ==
    << \* param -> a -> b, b the objective
       World("chain", <<CompA, CompB>>, ("b.x" :> Src("a.y", 1, 1)),
             <<"a.x">>, <<Objective("b.y")>>),
       \* a solver iterating a.x until a.y = a.x
       World("fixpoint",
             <<DriverNode("solver", "solver", TRUE, <<CompPX("a")>>,
                          <<"a.x">>, << <<"a.x", "a.y">> >>)>>,
             <<>>, <<"a.p">>, <<Objective("a.y")>>),
       \* two coupled disciplines under a solver
       World("sellar",
             <<DriverNode("solver", "solver", TRUE,
                          <<Comp("d1", "d1", <<"z", "y2">>, <<"y1">>),
                            Comp("d2", "d2", <<"y1">>, <<"y2">>)>>,
                          <<"d1.y2">>, << <<"d2.y2", "d1.y2">> >>)>>,
             ("d2.y1" :> Src("d1.y1", 1, 1)), <<"d1.z">>,
             <<Objective("d2.y2")>>),
       \* a component feeding a sub-assembly
       World("submodel", <<CompA, SubAssy(TRUE, <<SubC>>)>>,
             ("sub.in" :> Src("a.y", 1, 1)), <<"a.x">>,
             <<Objective("sub.out")>>),
       \* the sub-assembly has a driver of its own
       World("sub_driver", <<CompA, SubAssy(FALSE, <<SubC>>)>>,
             ("sub.in" :> Src("a.y", 1, 1)), <<"a.x">>,
             <<Objective("sub.out")>>),
       \* a nested driver that is no solver
       World("nonsolver",
             <<CompA, DriverNode("drv", "drv", FALSE, <<CompB>>, <<>>, <<>>)>>,
             ("b.x" :> Src("a.y", 1, 1)), <<"a.x">>, <<Objective("b.y")>>),
       \* a solver constraint none of whose variables is a solver parameter
       World("noindep",
             <<CompA, DriverNode("solver", "solver", TRUE, <<CompPX("b")>>,
                                 <<"b.x">>, << <<"b.y", "a.y">> >>)>>,
             ("b.p" :> Src("a.y", 1, 1)), <<"a.x">>, <<Objective("b.y")>>),
       \* a solver constraint that references one variable only
       World("oneref",
             <<CompA, DriverNode("solver", "solver", TRUE, <<CompPX("b")>>,
                                 <<"b.x">>, << <<"b.y">> >>)>>,
             ("b.p" :> Src("a.y", 1, 1)), <<"a.x">>, <<Objective("b.y")>>),
       \* a solver constraint with three variables, the parameter listed last
       World("threeref",
             <<CompA, DriverNode("solver", "solver", TRUE, <<CompPX("b")>>,
                                 <<"b.x">>, << <<"b.y", "a.y", "b.x">> >>)>>,
             ("b.p" :> Src("a.y", 1, 1)), <<"a.x">>, <<Objective("b.y")>>),
       \* a component without derivatives between two that have them
       World("noderiv",
             <<CompA, NoDerivComp("n", "n", <<"x">>, <<"y">>), CompB>>,
             ("n.x" :> Src("a.y", 1, 1)) @@ ("b.x" :> Src("n.y", 1, 1)),
             <<"a.x">>, <<Objective("b.y")>>),
       \* a component that is in the workflow of the driver and of its solver
       World("shared",
             <<Comp("a", "a", <<"p">>, <<"y">>),
               DriverNode("solver", "solver", TRUE, <<CompPX("a"), CompB>>,
                          <<"a.x">>, << <<"a.x", "b.y">> >>)>>,
             ("b.x" :> Src("a.y", 1, 1)), <<"a.p">>, <<Objective("b.y")>>),
       \* a component whose input x is connected to its own output y
       World("selffeed", <<CompPX("a")>>, ("a.x" :> Src("a.y", 1, 1)),
             <<"a.p">>, <<Objective("a.y")>>),
       \* a sub-assembly with a driver of its own that holds a plain driver
       World("driver_in_sub",
             <<CompA,
               SubAssy(FALSE, <<SubC, DriverNode("drv", "sub.drv", FALSE,
                                                 <<>>, <<>>, <<>>)>>)>>,
             ("sub.in" :> Src("a.y", 1, 1)), <<"a.x">>,
             <<Objective("sub.out")>>),
       \* a solver without independent ahead of a sub-assembly with a driver
       World("noindep_then_sub",
             <<DriverNode("solver", "solver", TRUE, <<CompPX("b")>>,
                          <<"b.x">>, << <<"b.y", "b.p">> >>),
               SubAssy(FALSE, <<SubC>>)>>,
             ("sub.in" :> Src("b.y", 1, 1)), <<"b.p">>,
             <<Objective("sub.out")>>),
       \* a sub-assembly whose boundary input is a parameter
       World("sub_param", <<SubAssy(TRUE, <<SubC>>)>>, <<>>, <<"sub.in">>,
             <<Objective("sub.out")>>),
       \* the same chain with the names exchanged: param -> b -> a
       World("chain_rev", <<CompB, CompA>>, ("a.x" :> Src("b.y", 1, 1)),
             <<"b.x">>, <<Objective("a.y")>>),
       \* that chain with edge dictionaries that iterate in sorted key order
       SortedDicts(World("chain_rev", <<CompB, CompA>>,
                         ("a.x" :> Src("b.y", 1, 1)),
                         <<"b.x">>, <<Objective("a.y")>>)),
       \* the chain under three constraints with the same two sides; b.y is
       \* on both sides
       WorldC("constrained", <<CompA, CompB>>, ("b.x" :> Src("a.y", 1, 1)),
              <<"a.x">>, <<Objective("b.y")>>,
              <<Constraint("con_le", ConLhs, ConRhs, "<="),
                Constraint("con_ge", ConLhs, ConRhs, ">="),
                Constraint("con_gt", ConLhs, ConRhs, ">")>>),
       \* a -> sub(c) -> b, every connection with a unit conversion of factor 2
       World("units", <<CompA, SubAssyUnits, CompB>>,
             ("sub.in" :> Src("a.y", 1, 2)) @@ ("b.x" :> Src("sub.out", 1, 2)),
             <<"a.x">>, <<Objective("b.y")>>),
       \* a solver whose constraint ties its parameter a.x to the input b.x
       World("dep_input",
             <<DriverNode("solver", "solver", TRUE, <<CompB, CompPX("a")>>,
                          <<"a.x">>, << <<"a.x", "b.x">> >>)>>,
             ("b.x" :> Src("a.y", 1, 1)), <<"a.p">>, <<Objective("b.y")>>),
       \* a sub-assembly that holds a component c and a solver around e
       World("solver_in_sub",
             <<CompA,
               AssyNode("sub", "sub", <<"in">>, <<"out">>, TRUE,
                        <<SubC,
                          DriverNode("solver", "sub.solver", TRUE,
                                     <<Comp("e", "sub.e", <<"p", "x">>,
                                            <<"y">>)>>,
                                     <<"e.x">>, << <<"e.x", "e.y">> >>)>>,
                        ("c.x" :> Src("in", 1, 1))
                            @@ ("e.p" :> Src("c.y", 1, 1)),
                        ("out" :> Src("e.y", 1, 1)))>>,
             ("sub.in" :> Src("a.y", 1, 1)), <<"a.x">>,
             <<Objective("sub.out")>>),
       \* the component inside the sub-assembly is called a, like the
       \* component of the top scope whose input a.x is the parameter
       World("name_clash",
             <<CompA,
               AssyNode("sub", "sub", <<"in">>, <<"out">>, TRUE,
                        <<Comp("a", "sub.a", <<"x">>, <<"y">>)>>,
                        ("a.x" :> Src("in", 1, 1)),
                        ("out" :> Src("a.y", 1, 1)))>>,
             ("sub.in" :> Src("a.y", 1, 1)), <<"a.x">>,
             <<Objective("sub.out")>>),
       \* a sub-assembly whose boundary input is a parameter, behind a
       \* component that has an input of the same name
       World("sub_param_after",
             <<Comp("a", "a", <<"in">>, <<"y">>), SubAssy(TRUE, <<SubC>>)>>,
             <<>>, <<"a.in", "sub.in">>, <<Objective("sub.out")>>),
       \* a component b whose two inputs are both connected to a.y
       World("two_inputs",
             <<CompA, Comp("b", "b", <<"x1", "x2">>, <<"y">>)>>,
             ("b.x1" :> Src("a.y", 1, 1)) @@ ("b.x2" :> Src("a.y", 1, 1)),
             <<"a.x">>, <<Objective("b.y")>>)
    >>

WorldIds == DOMAIN Worlds

W == Worlds[wid]

\* all names, in sorted order
SortedNames == <<"a", "b", "c", "d1", "d2", "drv", "e", "n", "solver", "sub">>

Rank(name) == Index(SortedNames, name)

-----------------------------------------------------------------------------
(* ChainRule: the parent class *)

RECURSIVE InsertSorted(_, _)
InsertSorted(sorted, node) ==
    IF sorted = <<>> THEN <<node>>
    ELSE IF Rank(node.name) < Rank(Head(sorted).name)
         THEN <<node>> \o sorted
         ELSE <<Head(sorted)>> \o InsertSorted(Tail(sorted), node)

RECURSIVE SortByName(_)
SortByName(wf) ==
    IF wf = <<>> THEN <<>>
    ELSE InsertSorted(SortByName(Tail(wf)), Head(wf))

\* ChainRule._find_edges: the edge dictionary of a driver scope has one entry
\* per node of the scope's workflow, name -> (inputs, outputs); EdgeDict is the
\* sequence of its entries in iteration order.
EdgeDict(wf, order) == IF order = "sorted" THEN SortByName(wf) ELSE wf

\* ChainRule.setup: the parameter names of the driver
ParamNames(w) == w.params

\* ChainRule.setup: the function names of the driver, objectives first
FunctionNames(w) ==
    [i \in 1..Len(w.objs) |-> w.objs[i].name]
        \o [i \in 1..Len(w.cons) |-> w.cons[i].name]

-----------------------------------------------------------------------------
(* Analytic._edge_counter *)

\* a key of edge_dicts: scope_name = dscope.get_pathname()
ScopeKey(dpath) == [pathname |-> dpath]

\* the driver object whose pathname is dpath
DriverObject(dpath) == [driver |-> dpath]

\* edges[index] of an edge dictionary entry
Edges(node, index) == IF index = 0 THEN node.ins ELSE node.outs

\* the names "%s%s.%s" % (head, name, v) for the variables v of one entry
FullNames(head, name, vs) ==
    [i \in 1..Len(vs) |-> head \o name \o "." \o vs[i]]

\* if head: head = '%s.' % head
Dotted(head) == IF head # "" THEN head \o "." ELSE head

\* faulty variant of SolverCheck: any nested driver is taken for a solver
SolverCheckSkipped(node, st) == st

\* lines 212-214: a nested driver must be a solver
SolverCheck(node, st) ==
    IF ~node.solver THEN [st EXCEPT !.err = ErrOnlySolvers] ELSE st

RECURSIVE EdgeCounter(_, _, _, _, _, _)
RECURSIVE EdgeLoop(_, _, _, _, _, _)
\* the loop over edge_dicts[scope_name].iteritems(), from entry k on
\* st = [vl |-> var_list, ed |-> edge_dicts keys, err |-> exception]
EdgeLoop(entries, k, index, head, order, st) ==
    IF st.err # "" \/ k > Len(entries) THEN st
    ELSE
      LET node == entries[k]
          index_bar == IF index = 1 THEN 0 ELSE 1
          inner ==
            IF node.kind = "assy"
            THEN EdgeCounter(node.dpath, node.wf, index, node.path, order,
                     [st EXCEPT !.vl = @ \o FullNames(head, node.name,
                                                      Edges(node, index_bar))])
            ELSE IF node.kind = "driver"
            THEN LET st1 == SolverCheck(node, st)
                 IN IF st1.err # "" THEN st1
                    ELSE EdgeCounter(node.dpath, node.wf, index, head, order,
                                     st1)
            ELSE st
          after ==
            IF inner.err # "" THEN inner
            ELSE [inner EXCEPT !.vl = @ \o FullNames(head, node.name,
                                                     Edges(node, index))]
      IN EdgeLoop(entries, k + 1, index, head, order, after)

\* _edge_counter(scope, dscope, index, head): dpath and wf are the pathname
\* and the workflow of dscope
EdgeCounter(dpath, wf, index, head, order, st) ==
    EdgeLoop(EdgeDict(wf, order), 1, index, Dotted(head), order,
             [st EXCEPT !.ed = @ \cup {ScopeKey(dpath)}])

-----------------------------------------------------------------------------
(* Analytic.__init__ and Analytic.setup *)

\* rationals are pairs <<numerator, denominator>>, denominator > 0, reduced
RatZeros(n, m) == [i \in 0..(n-1) |-> [j \in 0..(m-1) |-> <<0, 1>>]]

\* the instance after __init__
NewInstance ==
    [var_list |-> <<>>, n_var |-> 0, LHS |-> Zeros(0, 0), RHS |-> Zeros(0, 0),
     EQS |-> Zeros(0, 0), EQS_zero |-> Zeros(0, 0),
     gradient |-> RatZeros(0, 0), param_names |-> <<>>,
     function_names |-> <<>>, edge_dicts |-> {}, err |-> ""]

\* faulty variant of HasGreater: only the comparator '>' itself is recognised
HasGreaterStrict(comparator) == comparator = ">"

\* '>' in comparator
HasGreater(comparator) == comparator \in {">", ">="}

\* One "for input_name, val in grad.iteritems()" loop of setup, from item k
\* on: coef*val goes to EQS_zero when input_name is a parameter, else to EQS
\* when it is an unknown; accumulate tells += from =.
RECURSIVE RouteGrad(_, _, _, _, _, _)
RouteGrad(items, k, i_eq, coef, accumulate, s) ==
    IF k > Len(items) THEN s
    ELSE
      LET input_name == items[k].var
          val == coef * items[k].val
          i_param == Index(s.param_names, input_name)
          i_var == Index(s.var_list, input_name)
          s1 == IF i_param >= 0
                THEN [s EXCEPT !.EQS_zero[i_eq][i_param] =
                                   IF accumulate THEN @ + val ELSE val]
                ELSE IF i_var >= 0
                THEN [s EXCEPT !.EQS[i_eq][i_var] =
                                   IF accumulate THEN @ + val ELSE val]
                ELSE s
      IN RouteGrad(items, k + 1, i_eq, coef, accumulate, s1)

RECURSIVE ObjectiveRows(_, _, _)
ObjectiveRows(objs, k, s) ==
    IF k > Len(objs) THEN s
    ELSE ObjectiveRows(objs, k + 1,
                       RouteGrad(objs[k].grad, 1, k - 1, 1, FALSE, s))

RECURSIVE ConstraintRows(_, _, _, _)
ConstraintRows(cons, k, i_eq, s) ==
    IF k > Len(cons) THEN s
    ELSE
      LET sign == IF HasGreater(cons[k].comparator) THEN -1 ELSE 1
          s1 == RouteGrad(cons[k].lhs, 1, i_eq, sign, TRUE, s)
          s2 == RouteGrad(cons[k].rhs, 1, i_eq, -sign, TRUE, s1)
      IN ConstraintRows(cons, k + 1, i_eq + 1, s2)

\* index = 0 if self.mode == 'adjoint' else 1
ModeIndex(m) == IF m = "adjoint" THEN 0 ELSE 1

\* faulty variant of ResetVarList: the list of the previous setup() is kept
KeepVarList(s) == s.var_list

\* self.var_list = [] ahead of the enumeration
ResetVarList(s) == <<>>

\* faulty variant of FreshEQS: an EQS of the right shape is kept as it is
StaleEQS(s, n_eq, n_var) ==
    IF DOMAIN s.EQS = 0..(n_eq-1)
       /\ \A i \in DOMAIN s.EQS : DOMAIN s.EQS[i] = 0..(n_var-1)
    THEN s.EQS
    ELSE Zeros(n_eq, n_var)

\* self.EQS = zeros((n_eq, n_var), 'd')
FreshEQS(s, n_eq, n_var) == Zeros(n_eq, n_var)

\* setup(): the instance s after setup() on model w in mode m
DoSetup(s, w, m) ==
    LET s0 == [s EXCEPT !.param_names = ParamNames(w),
                        !.function_names = FunctionNames(w),
                        !.err = ""]
        ec == EdgeCounter(w.top.dpath, w.top.wf, ModeIndex(m), "", w.order,
                          [vl |-> ResetVarList(s0), ed |-> s0.edge_dicts,
                           err |-> ""])
        s1 == [s0 EXCEPT !.var_list = ec.vl, !.edge_dicts = ec.ed,
                         !.err = ec.err]
        n_var == Len(s1.var_list)
        n_param == Len(s1.param_names)
        n_eq == Len(s1.function_names)
        s2 == [s1 EXCEPT !.LHS = Zeros(n_var, n_var),
                         !.RHS = Zeros(n_var, n_param),
                         !.EQS = FreshEQS(s1, n_eq, n_var),
                         !.EQS_zero = Zeros(n_eq, n_param),
                         !.gradient = RatZeros(n_eq, n_param)]
        s3 == ObjectiveRows(w.objs, 1, s2)
    IN IF s1.err # "" THEN s1
       ELSE ConstraintRows(w.cons, 1, Len(w.objs), s3)

-----------------------------------------------------------------------------
(* Analytic._assemble_direct *)

(* The assembler threads a record a through its loops:                     *)
(*   LHS, RHS  the matrices of the instance                                *)
(*   err       the exception raised, "" while none                         *)
(*   i_eq      the running equation number                                 *)
(*   ld, on    the function's local variables local_derivs (the path of    *)
(*             the component whose derivatives it holds) and output_name;  *)
(*             Unbound until the call frame has assigned them              *)
(*   rows      history: the rows opened, as <<row, name of the unknown>>   *)
(*   noindep   history: a solver constraint without solver parameter was   *)
(*             examined                                                    *)
(*   nested    history: a sub-assembly whose driver is no Run_Once was     *)
(*             reached                                                     *)
(*   sw        history: the entries written for solver couplings, as       *)
(*             [row, col, inp, out, val]                                   *)
(* It reads a context cx = [var_list, param_names, edge_dicts, d] where d  *)
(* gives the local derivatives of this evaluation point, keyed by          *)
(* <<component path, output, input>>, and a frame                          *)
(* fr = [conn, dpath, head, sc]: the connections of ascope, the pathname   *)
(* of dscope, the dotted prefix and the solver_conns argument.             *)

Unbound == "<unbound>"

NoSolverConns == [none |-> TRUE, map |-> <<>>]

Raise(a, e) == [a EXCEPT !.err = e]

\* self.LHS[i][j] = v
SetLHS(a, i, j, v) ==
    IF InRange(a.LHS, i, j) THEN [a EXCEPT !.LHS[i][j] = v]
    ELSE Raise(a, ErrIndex)

\* self.RHS[i][j] = v
SetRHS(a, i, j, v) ==
    IF InRange(a.RHS, i, j) THEN [a EXCEPT !.RHS[i][j] = v]
    ELSE Raise(a, ErrIndex)

\* self.LHS[i_eq][i_eq] = 1.0 for the unknown called name
OpenRow(a, name) ==
    LET a1 == SetLHS(a, a.i_eq, a.i_eq, 1)
    IN IF a1.err # "" THEN a1
       ELSE [a1 EXCEPT !.rows = Append(@, <<a.i_eq, name>>)]

\* faulty variant of ExprDeriv: the unit conversion factor is left out
ExprDerivNoUnits(c) == c.dexpr

\* expr_deriv[source], times the unit conversion factor when there is one
ExprDeriv(c) == c.dexpr * c.k

\* faulty variant of ChainedEntry: the term is written without its minus sign
ChainedEntryUnsigned(local, c) == local * ExprDeriv(c)

\* the chained entry of a connected component input
ChainedEntry(local, c) == -local * ExprDeriv(c)

\* faulty variant of SolverEntry: the derivative is written with its own sign
SolverEntryUnsigned(local) == local

\* lines 436-437: the entry of an input that a solver couples to an unknown
SolverEntry(local) == -local

\* local_derivs[output_name][input_name]
HasDeriv(cx, path, out, inp) == <<path, out, inp>> \in DOMAIN cx.d

\* lines 418-475: the term of one input of a terminal component
CompInput(cx, fr, node, out, inp, a) ==
    LET input_full == node.name \o "." \o inp
        i_param == Index(cx.param_names, input_full)
        key == <<node.path, out, inp>>
    IN IF i_param >= 0
       THEN IF ~HasDeriv(cx, node.path, out, inp) THEN Raise(a, ErrKey)
            ELSE SetRHS(a, a.i_eq, i_param, cx.d[key])
       ELSE IF ~fr.sc.none /\ input_full \in DOMAIN fr.sc.map
       THEN LET i_dep == Index(cx.var_list, fr.sc.map[input_full])
            IN IF i_dep < 0 THEN Raise(a, ErrValue)
               ELSE IF ~HasDeriv(cx, node.path, out, inp) THEN Raise(a, ErrKey)
               ELSE SetLHS([a EXCEPT !.sw = Append(@,
                               [row |-> a.i_eq, col |-> i_dep,
                                inp |-> input_full,
                                out |-> fr.head \o node.name \o "." \o out,
                                val |-> SolverEntry(cx.d[key])])],
                           a.i_eq, i_dep, SolverEntry(cx.d[key]))
       ELSE IF input_full \notin DOMAIN fr.conn THEN Raise(a, ErrIndex)
       ELSE LET c == fr.conn[input_full]
                i_var == Index(cx.var_list, fr.head \o c.src)
            IN IF i_var < 0 THEN Raise(a, ErrValue)
               ELSE IF ~HasDeriv(cx, node.path, out, inp) THEN Raise(a, ErrKey)
               ELSE SetLHS(a, a.i_eq, i_var, ChainedEntry(cx.d[key], c))

RECURSIVE CompInputs(_, _, _, _, _, _)
CompInputs(cx, fr, node, out, k, a) ==
    IF a.err # "" \/ k > Len(node.ins) THEN a
    ELSE CompInputs(cx, fr, node, out, k + 1,
                    CompInput(cx, fr, node, out, node.ins[k], a))

\* lines 411-477: the equations of a terminal component, from output k on
RECURSIVE CompOutputs(_, _, _, _, _)
CompOutputs(cx, fr, node, k, a) ==
    IF a.err # "" \/ k > Len(node.outs) THEN a
    ELSE
      LET out == node.outs[k]
          a1 == OpenRow([a EXCEPT !.on = out],
                        fr.head \o node.name \o "." \o out)
          a2 == CompInputs(cx, fr, node, out, 1, a1)
      IN CompOutputs(cx, fr, node, k + 1,
                     IF a2.err # "" THEN a2 ELSE [a2 EXCEPT !.i_eq = @ + 1])

\* lines 403-477
AsmComp(cx, fr, node, a) ==
    IF ScopeKey(fr.dpath) \notin cx.edge_dicts THEN Raise(a, ErrKey)
    ELSE CompOutputs(cx, fr, node, 1, [a EXCEPT !.ld = node.path])

\* lines 268-284: the couplings of a solver, from constraint k on
\* sd = [map |-> solver_dict, err |-> exception, noindep |-> history]
RECURSIVE SolverDict(_, _, _, _)
SolverDict(params, eqs, k, sd) ==
    IF sd.err # "" \/ k > Len(eqs) THEN sd
    ELSE
      LET comps == eqs[k]
          none == \A i \in 1..Len(comps) : ~Contains(params, comps[i])
          sd1 == [sd EXCEPT !.noindep = @ \/ none]
          next ==
            IF Len(comps) < 1 THEN [sd1 EXCEPT !.err = ErrIndex]
            ELSE IF Contains(params, comps[1])
            THEN IF Len(comps) < 2 THEN [sd1 EXCEPT !.err = ErrIndex]
                 ELSE [sd1 EXCEPT !.map = (comps[1] :> comps[2]) @@ @]
            ELSE IF Len(comps) < 2 THEN [sd1 EXCEPT !.err = ErrIndex]
            ELSE IF Contains(params, comps[2])
            THEN [sd1 EXCEPT !.map = (comps[2] :> comps[1]) @@ @]
            ELSE [sd1 EXCEPT !.err = ErrNoIndep]
      IN SolverDict(params, eqs, k + 1, next)

\* lines 304-346: the equation of one boundary input of a sub-assembly
AssyInput(cx, fr, node, inp, a) ==
    LET input_full == node.name \o "." \o inp
        i_param == Index(cx.param_names, input_full)
    IN IF i_param >= 0
       THEN IF a.ld = Unbound \/ a.on = Unbound THEN Raise(a, ErrUnbound)
            ELSE IF ~HasDeriv(cx, a.ld, a.on, inp) THEN Raise(a, ErrKey)
            ELSE SetRHS(a, a.i_eq, i_param, cx.d[<<a.ld, a.on, inp>>])
       ELSE IF input_full \notin DOMAIN fr.conn THEN Raise(a, ErrIndex)
       ELSE LET c == fr.conn[input_full]
                i_var == Index(cx.var_list, fr.head \o c.src)
            IN IF i_var < 0 THEN Raise(a, ErrValue)
               ELSE SetLHS(a, a.i_eq, i_var, -ExprDeriv(c))

RECURSIVE AssyInputs(_, _, _, _, _)
AssyInputs(cx, fr, node, k, a) ==
    IF a.err # "" \/ k > Len(node.ins) THEN a
    ELSE
      LET inp == node.ins[k]
          a1 == OpenRow(a, fr.head \o node.name \o "." \o inp)
          a2 == IF a1.err # "" THEN a1 ELSE AssyInput(cx, fr, node, inp, a1)
      IN AssyInputs(cx, fr, node, k + 1,
                    IF a2.err # "" THEN a2 ELSE [a2 EXCEPT !.i_eq = @ + 1])

\* lines 357-399: the equations of the boundary outputs of a sub-assembly
RECURSIVE AssyOutputs(_, _, _, _, _)
AssyOutputs(cx, fr, node, k, a) ==
    IF a.err # "" \/ k > Len(node.outs) THEN a
    ELSE
      LET out == node.outs[k]
          a1 == OpenRow([a EXCEPT !.on = out],
                        fr.head \o node.name \o "." \o out)
          a2 ==
            IF a1.err # "" THEN a1
            ELSE IF out \notin DOMAIN node.oconn THEN Raise(a1, ErrUnbound)
            ELSE LET c == node.oconn[out]
                     i_var == Index(cx.var_list,
                                    fr.head \o node.name \o "." \o c.src)
                 IN IF i_var < 0 THEN Raise(a1, ErrValue)
                    ELSE SetLHS(a1, a1.i_eq, i_var, -ExprDeriv(c))
      IN AssyOutputs(cx, fr, node, k + 1,
                     IF a2.err # "" THEN a2 ELSE [a2 EXCEPT !.i_eq = @ + 1])

\* lines 259-262: a nested driver must be a solver
DriverCheck(node, a) ==
    IF ~node.solver THEN Raise(a, ErrOnlySolvers) ELSE a

\* faulty variant of RunOnceCheck: the driver of the sub-assembly is not looked at
RunOnceCheckSkipped(node, a) == a

\* lines 293-294: the driver of a sub-assembly must be a Run_Once
RunOnceCheck(node, a) ==
    IF ~node.runonce THEN Raise(a, ErrNestedDrivers) ELSE a

RECURSIVE AssembleDirect(_, _, _, _, _, _)
RECURSIVE AsmLoop(_, _, _, _, _)
\* the loop over dscope.workflow, from node k on
AsmLoop(cx, fr, wf, k, a) ==
    IF a.err # "" \/ k > Len(wf) THEN a
    ELSE
      LET node == wf[k]
          next ==
            IF node.kind = "driver"
            THEN LET a1 == DriverCheck(node, a)
                     sd == SolverDict(node.params, node.eqs, 1,
                                      [map |-> <<>>, err |-> "",
                                       noindep |-> a.noindep])
                     a2 == [a1 EXCEPT !.noindep = sd.noindep, !.err = sd.err]
                     r == AssembleDirect(cx, fr.conn, node, fr.head,
                                         [none |-> FALSE, map |-> sd.map], a2)
                 IN IF a1.err # "" THEN a1
                    ELSE IF a2.err # "" THEN a2
                    ELSE [r EXCEPT !.ld = a.ld, !.on = a.on]
            ELSE IF node.kind = "assy"
            THEN LET a1 == RunOnceCheck(node,
                                        [a EXCEPT !.nested = @ \/ ~node.runonce])
                     a2 == IF ScopeKey(fr.dpath) \notin cx.edge_dicts
                           THEN Raise(a1, ErrKey)
                           ELSE AssyInputs(cx, fr, node, 1, a1)
                     r == AssembleDirect(cx, node.conn, node, node.path,
                                         NoSolverConns, a2)
                     a3 == [r EXCEPT !.ld = a2.ld, !.on = a2.on]
                 IN IF a1.err # "" THEN a1
                    ELSE IF a2.err # "" THEN a2
                    ELSE AssyOutputs(cx, fr, node, 1, a3)
            ELSE IF node.hasd
            THEN AsmComp(cx, fr, node, a)
            ELSE a
      IN AsmLoop(cx, fr, wf, k + 1, next)

\* _assemble_direct(ascope, dscope, eq_num, head, solver_conns): conn are the
\* connections of ascope, node opens the driver scope dscope, a.i_eq is eq_num
AssembleDirect(cx, conn, node, head, solver_conns, a) ==
    AsmLoop(cx,
            [conn |-> conn, dpath |-> node.dpath, head |-> Dotted(head),
             sc |-> solver_conns],
            node.wf, 1, [a EXCEPT !.ld = Unbound, !.on = Unbound])

-----------------------------------------------------------------------------
(* Analytic._solve: numpy.linalg.solve and dot, in exact arithmetic *)

Abs(x) == IF x < 0 THEN -x ELSE x

RECURSIVE Gcd(_, _)
Gcd(x, y) == IF y = 0 THEN x ELSE Gcd(y, x % y)

\* the rational num/den in lowest terms, den # 0
Rat(num, den) ==
    LET g == Gcd(Abs(num), Abs(den))
        sg == IF den < 0 THEN -1 ELSE 1
    IN <<sg * (num \div g), sg * (den \div g)>>

RECURSIVE SumTo(_, _)
\* f[0] + ... + f[n-1]
SumTo(f, n) == IF n = 0 THEN 0 ELSE f[n-1] + SumTo(f, n - 1)

RemoveAt(seq, k) == SubSeq(seq, 1, k - 1) \o SubSeq(seq, k + 1, Len(seq))

\* determinant of the submatrix of M on the given rows and columns, by
\* expansion along its first row
RECURSIVE DetOn(_, _, _)
DetOn(M, rows, cols) ==
    IF rows = <<>> THEN 1
    ELSE SumTo([k \in 0..(Len(cols)-1) |->
                  IF M[rows[1]][cols[k+1]] = 0 THEN 0
                  ELSE (IF k % 2 = 0 THEN 1 ELSE -1) * M[rows[1]][cols[k+1]]
                       * DetOn(M, Tail(rows), RemoveAt(cols, k + 1))],
               Len(cols))

Det(M) ==
    LET idx == [i \in 1..NRows(M) |-> i - 1]
    IN DetOn(M, idx, idx)

\* M with column c replaced by column j of B
ReplaceCol(M, c, B, j) ==
    [r \in DOMAIN M |-> [q \in DOMAIN M[r] |-> IF q = c THEN B[r][j] ELSE M[r][q]]]

\* _solve(): total_derivs = linalg.solve(LHS, RHS);
\* gradient = EQS_zero + dot(EQS, total_derivs)
DoSolve(s) ==
    LET n == NRows(s.LHS)
        det == Det(s.LHS)
        n_param == Len(s.param_names)
        \* det * total_derivs, by Cramer's rule
        tn == [i \in 0..(n-1) |-> [j \in 0..(n_param-1) |->
                   Det(ReplaceCol(s.LHS, i, s.RHS, j))]]
    IN IF det = 0 THEN [s EXCEPT !.err = ErrSingular]
       ELSE [s EXCEPT !.gradient =
                [f \in DOMAIN s.EQS_zero |-> [j \in DOMAIN s.EQS_zero[f] |->
                    Rat(s.EQS_zero[f][j] * det
                          + SumTo([i \in 0..(n-1) |-> s.EQS[f][i] * tn[i][j]],
                                  n),
                        det)]]]

-----------------------------------------------------------------------------
(* Analytic.calc_gradient *)

\* faulty variant of ParentInEdgeDicts: the model is found in the cache once
\* any setup() has filled it, whatever the mode was
ParentCached(s, w) == ScopeKey(w.top.dpath) \in s.edge_dicts

\* "self._parent not in self.edge_dicts": the keys of edge_dicts are scope
\* pathnames (strings), self._parent is the driver object
ParentInEdgeDicts(s, w) == DriverObject(w.top.dpath) \in s.edge_dicts

\* lines 234-237: the assembly pass of calc_gradient, on derivatives d
\* result: the assembler's record, LHS/RHS/err as the instance holds them
AssemblePass(s, w, d) ==
    AssembleDirect([var_list |-> s.var_list, param_names |-> s.param_names,
                    edge_dicts |-> s.edge_dicts, d |-> d],
                   w.conn, w.top, "", NoSolverConns,
                   [LHS |-> s.LHS, RHS |-> s.RHS, err |-> "", i_eq |-> 0,
                    ld |-> Unbound, on |-> Unbound, rows |-> <<>>,
                    noindep |-> FALSE, nested |-> FALSE, sw |-> <<>>])

NoPass ==
    [i_eq |-> 0, rows |-> <<>>, noindep |-> FALSE, nested |-> FALSE,
     sw |-> <<>>]

\* the record calc_gradient() leaves: [s |-> the instance after the call,
\* ran_setup, assembled, solved |-> which steps ran, asm |-> the assembler's
\* history]
CalcResult(s, ran_setup, assembled, solved, asm) ==
    [s |-> s, ran_setup |-> ran_setup, assembled |-> assembled,
     solved |-> solved, asm |-> asm]

\* line 239: _solve(), reached when neither setup nor the assembly raised;
\* s2 is the instance after the assembly pass
CalcSolve(s2, m, ran_setup, asm) ==
    IF s2.err # ""
    THEN CalcResult(s2, ran_setup, m = "direct", FALSE, asm)
    ELSE CalcResult(DoSolve(s2), ran_setup, m = "direct", TRUE, asm)

\* lines 234-237: in direct mode the assembler has written LHS and RHS in
\* place (a is its record); in any other mode no assembly pass runs
CalcAssemble(s1, a, m, ran_setup) ==
    IF m = "direct"
    THEN CalcSolve([s1 EXCEPT !.LHS = a.LHS, !.RHS = a.RHS, !.err = a.err],
                   m, ran_setup,
                   [i_eq |-> a.i_eq, rows |-> a.rows, noindep |-> a.noindep,
                    nested |-> a.nested, sw |-> a.sw])
    ELSE CalcSolve(s1, m, ran_setup, NoPass)

\* lines 234-239, s1 being the instance after the setup step
CalcAfterSetup(s1, w, m, d, ran_setup) ==
    IF s1.err # "" THEN CalcResult(s1, ran_setup, FALSE, FALSE, NoPass)
    ELSE CalcAssemble(s1, AssemblePass(s1, w, d), m, ran_setup)

\* faulty variant of DoCalcGradient: a system that an earlier call left in the
\* instance is taken as it is
CalcGradientReuse(s, w, m, d) ==
    IF s.LHS # NewInstance.LHS /\ s.err = ""
    THEN CalcResult(s, FALSE, m = "direct", TRUE, NoPass)
    ELSE CalcAfterSetup(DoSetup(s, w, m), w, m, d, TRUE)

\* calc_gradient()
DoCalcGradient(s, w, m, d) ==
    IF ~ParentInEdgeDicts(s, w)
    THEN CalcAfterSetup(DoSetup(s, w, m), w, m, d, TRUE)
    ELSE CalcAfterSetup([s EXCEPT !.err = ""], w, m, d, FALSE)

-----------------------------------------------------------------------------
(* Gradient accessors *)

\* faulty variant of DoGetDerivative: an absent name yields a zero derivative
GetDerivativeOrZero(s, output_name, wrt) ==
    LET i_param == Index(s.param_names, wrt)
        i_func == Index(s.function_names, output_name)
    IN IF i_param < 0 \/ i_func < 0 THEN [err |-> "", val |-> <<<<0, 1>>>>]
       ELSE IF ~InRange(s.gradient, i_func, i_param)
       THEN [err |-> ErrIndex, val |-> <<>>]
       ELSE [err |-> "", val |-> <<s.gradient[i_func][i_param]>>]

\* get_derivative(output_name, wrt): [err, val]
DoGetDerivative(s, output_name, wrt) ==
    LET i_param == Index(s.param_names, wrt)
        i_func == Index(s.function_names, output_name)
    IN IF i_param < 0 \/ i_func < 0 THEN [err |-> ErrValue, val |-> <<>>]
       ELSE IF ~InRange(s.gradient, i_func, i_param)
       THEN [err |-> ErrIndex, val |-> <<>>]
       ELSE [err |-> "", val |-> <<s.gradient[i_func][i_param]>>]

\* get_gradient(output_name): [err, val]
DoGetGradient(s, output_name) ==
    LET i_func == Index(s.function_names, output_name)
    IN IF i_func < 0 THEN [err |-> ErrValue, val |-> <<>>]
       ELSE IF i_func \notin DOMAIN s.gradient
       THEN [err |-> ErrIndex, val |-> <<>>]
       ELSE [err |-> "", val |-> <<s.gradient[i_func]>>]

-----------------------------------------------------------------------------------------------------------------------------------------------------
(* The state machine *)

Modes == {"direct", "adjoint"}

\* the names the accessors are asked for: a function and a parameter of the
\* model, and a name that is neither
FunctionQueries == {W.objs[1].name, "missing_name"}

ParamQueries == {W.params[1], "missing_name"}

RECURSIVE DerivKeys(_)
\* the <<component, output, input>> triples of the components of a workflow
DerivKeys(wf) ==
    UNION {
      IF wf[k].kind = "comp"
      THEN IF wf[k].hasd
           THEN {<<wf[k].path, wf[k].outs[o], wf[k].ins[i]>> :
                    o \in 1..Len(wf[k].outs), i \in 1..Len(wf[k].ins)}
           ELSE {}
      ELSE DerivKeys(wf[k].wf) : k \in 1..Len(wf) }

\* again: the operation before was the same operation
\* pre_vl: var_list as calc_gradient() found it; changed: the call before
\* was a calc_gradient() with other local derivatives
NoOp == [op |-> "init", again |-> FALSE, ran_setup |-> FALSE,
         assembled |-> FALSE, solved |-> FALSE, asm |-> NoPass, d |-> <<>>,
         args |-> <<>>, ret |-> <<>>, pre_vl |-> <<>>, changed |-> FALSE]

Init ==
    /\ wid \in WorldIds
    /\ mode = "direct"
    /\ self = NewInstance
    /\ last = NoOp

\* the user sets the mode trait
SetMode ==
    /\ \E m \in Modes : m # mode /\ mode' = m
    /\ last' = [NoOp EXCEPT !.op = "set_mode"]
    /\ UNCHANGED <<wid, self>>

\* setup()
Setup ==
    /\ self' = DoSetup(self, W, mode)
    /\ last' = [NoOp EXCEPT !.op = "setup", !.ran_setup = TRUE,
                            !.again = (last.op = "setup")]
    /\ UNCHANGED <<wid, mode>>

\* calc_gradient() at an evaluation point with local derivatives d
CalcGradient ==
    \E d \in [DerivKeys(W.top.wf) -> DerivVals] :
      \E r \in {DoCalcGradient(self, W, mode, d)} :
         /\ self' = r.s
         /\ last' = [NoOp EXCEPT !.op = "calc_gradient",
                                 !.again = (last.op = "calc_gradient"),
                                 !.ran_setup = r.ran_setup,
                                 !.assembled = r.assembled,
                                 !.solved = r.solved, !.asm = r.asm, !.d = d,
                                 !.pre_vl = self.var_list,
                                 !.changed = (last.op = "calc_gradient"
                                              /\ last.d # d)]
         /\ UNCHANGED <<wid, mode>>

\* get_derivative(output_name, wrt)
GetDerivative ==
    \E output_name \in FunctionQueries, wrt \in ParamQueries :
      LET r == DoGetDerivative(self, output_name, wrt)
      IN /\ self' = [self EXCEPT !.err = r.err]
         /\ last' = [NoOp EXCEPT !.op = "get_derivative",
                                 !.args = <<output_name, wrt>>, !.ret = r.val]
         /\ UNCHANGED <<wid, mode>>

\* get_gradient(output_name)
GetGradient ==
    \E output_name \in FunctionQueries :
      LET r == DoGetGradient(self, output_name)
      IN /\ self' = [self EXCEPT !.err = r.err]
         /\ last' = [NoOp EXCEPT !.op = "get_gradient",
                                 !.args = <<output_name>>, !.ret = r.val]
         /\ UNCHANGED <<wid, mode>>

Next == SetMode \/ Setup \/ CalcGradient \/ GetDerivative \/ GetGradient

Spec == Init /\ [][Next]_vars

-----------------------------------------------------------------------------
(* Properties *)

\* the matrix with the given rows, indexed from 0
FromRows(rows) ==
    [i \in 0..(Len(rows)-1) |-> [j \in 0..(Len(rows[i+1])-1) |-> rows[i+1][j+1]]]

InWorld(name) == W.name = name

Elems(seq) == {seq[i] : i \in 1..Len(seq)}

\* calc_gradient() was the last operation and ran in direct mode
CalcDirect == last.op = "calc_gradient" /\ mode = "direct"

\* the last operation was a calc_gradient() whose assembly pass ran to its end
PassCompleted == last.op = "calc_gradient" /\ last.assembled /\ last.solved

\* the last operation was a calc_gradient() whose assembly pass raised
PassAborted == last.op = "calc_gradient" /\ last.assembled /\ ~last.solved

DA == last.d[<<"a", "y", "x">>]

DB == last.d[<<"b", "y", "x">>]

\* C1: on the chain param -> a -> b, calc_gradient() in direct mode leaves
\* var_list = [a.y, b.y] and get_derivative('b.y', 'a.x') returns the product
\* of the two local partials; with da/dparam = 2 and db/da = 3 the system is
\* LHS = [[1,0],[-3,1]], RHS = [[2],[0]] and the derivative is 6.
C1_ChainRule ==
    (InWorld("chain") /\ CalcDirect) =>
        /\ self.err = ""
        /\ self.var_list = <<"a.y", "b.y">>
        /\ DoGetDerivative(self, "b.y", "a.x")
              = [err |-> "", val |-> <<<<DA * DB, 1>>>>]
        /\ (DA = 2 /\ DB = 3) =>
              /\ self.LHS = FromRows(<< <<1, 0>>, <<-3, 1>> >>)
              /\ self.RHS = FromRows(<< <<2>>, <<0>> >>)
              /\ DoGetDerivative(self, "b.y", "a.x").val = <<<<6, 1>>>>

C1_Witness ==
    /\ InWorld("chain") /\ CalcDirect /\ DA = 2 /\ DB = 3
    /\ self.gradient[0][0] = <<6, 1>>

\* C2: after every assembly pass that runs to its end, every diagonal entry
\* of LHS is 1.
C2_UnitDiagonal ==
    PassCompleted => \A i \in DOMAIN self.LHS : self.LHS[i][i] = 1

\* C3: every row the assembler opens carries the number var_list gives the
\* unknown the row is opened for.
C3_RowsFollowVarList ==
    (last.op = "calc_gradient" /\ last.assembled) =>
        \A k \in 1..Len(last.asm.rows) :
            LET row == last.asm.rows[k]
            IN /\ row[1] < Len(self.var_list)
               /\ self.var_list[row[1] + 1] = row[2]

\* C4: a setup() that follows a setup() in the same mode leaves var_list as
\* it was, element for element.
C4_SetupDeterministic ==
    [][(last.op = "setup" /\ last'.op = "setup" /\ mode' = mode)
          => self'.var_list = self.var_list]_vars

C4_Witness ==
    /\ last.op = "setup" /\ last.again
    /\ self.err = ""
    /\ Len(self.var_list) >= 4

\* C5: after setup() no name is in var_list twice.
C5_NoDuplicates ==
    (last.op = "setup" /\ self.err = "") =>
        Cardinality(Elems(self.var_list)) = Len(self.var_list)

\* C6: get_derivative and get_gradient raise the not-found error when the
\* function name is not in function_names or (get_derivative) the parameter
\* name is not in param_names, and return nothing.
C6_NotFound ==
    /\ (/\ last.op = "get_derivative"
        /\ \/ ~Contains(self.function_names, last.args[1])
           \/ ~Contains(self.param_names, last.args[2]))
          => (self.err = ErrValue /\ last.ret = <<>>)
    /\ (/\ last.op = "get_gradient"
        /\ ~Contains(self.function_names, last.args[1]))
          => (self.err = ErrValue /\ last.ret = <<>>)

C6_Witness ==
    /\ last.op = "get_derivative"
    /\ last.args = <<"b.y", "missing_name">>
    /\ Contains(self.function_names, "b.y")
    /\ self.gradient = FromRows(<< << <<6, 1>> >> >>)
    /\ self.err = ErrValue

RECURSIVE HasPlainDriver(_)
\* the hierarchy holds a nested driver that is no solver
HasPlainDriver(wf) ==
    \E k \in 1..Len(wf) :
        \/ wf[k].kind = "driver" /\ ~wf[k].solver
        \/ HasPlainDriver(wf[k].wf)

RECURSIVE HasDrivenAssembly(_)
\* the hierarchy holds a sub-assembly whose driver is no Run_Once
HasDrivenAssembly(wf) ==
    \E k \in 1..Len(wf) :
        \/ wf[k].kind = "assy" /\ ~wf[k].runonce
        \/ HasDrivenAssembly(wf[k].wf)

\* C7: on a model that holds a nested driver without solver capability,
\* calc_gradient() raises 'Only nested solvers are supported', in either
\* mode; it does not reach the solve and the instance holds no gradient.
C7_OnlyNestedSolvers ==
    (HasPlainDriver(W.top.wf) /\ last.op = "calc_gradient") =>
        /\ self.err = ErrOnlySolvers
        /\ ~last.solved
        /\ self.gradient = NewInstance.gradient
        /\ self.LHS = NewInstance.LHS

C7_Witness ==
    /\ InWorld("nonsolver") /\ last.op = "calc_gradient" /\ mode = "adjoint"
    /\ self.err = ErrOnlySolvers
    /\ self.var_list = <<"a.x">>

\* the instance holds no gradient: the matrix is empty or all zero
NoGradient ==
    \A f \in DOMAIN self.gradient :
        \A j \in DOMAIN self.gradient[f] : self.gradient[f][j] = <<0, 1>>

\* C8 as stated: on a model that holds a sub-assembly whose driver is no
\* Run_Once, calc_gradient() raises 'Nested drivers' and does not solve.
C8_NestedDriversAlways ==
    (HasDrivenAssembly(W.top.wf) /\ last.op = "calc_gradient") =>
        (self.err = ErrNestedDrivers /\ ~last.solved)

\* C8 amended: in direct mode, on such a model calc_gradient() raises and
\* does not reach the solve, and the error is 'Nested drivers' whenever the
\* assembler has reached the sub-assembly.
C8_NestedDriversDirect ==
    (HasDrivenAssembly(W.top.wf) /\ CalcDirect) =>
        /\ self.err # ""
        /\ ~last.solved
        /\ NoGradient
        /\ last.asm.nested => self.err = ErrNestedDrivers
        /\ InWorld("sub_driver") => last.asm.nested

C8_Witness ==
    /\ InWorld("sub_driver") /\ CalcDirect
    /\ last.asm.nested
    /\ self.err = ErrNestedDrivers
    /\ last.asm.rows = << <<0, "a.y">> >>

\* C9: a solver constraint none of whose variables is a parameter of the
\* solver makes the assembly raise 'No independent in solver equation',
\* however many variables it references, and no other constraint does.
C9_NoIndependent ==
    (last.op = "calc_gradient" /\ last.assembled) =>
        (last.asm.noindep <=> self.err = ErrNoIndep)

\* C10: when the assembly pass raises, LHS and RHS hold nothing the pass
\* has written.
C10_NoPartialMatrices ==
    PassAborted =>
        /\ self.LHS = Zeros(Len(self.var_list), Len(self.var_list))
        /\ self.RHS = Zeros(Len(self.var_list), Len(self.param_names))

-----------------------------------------------------------------------------
(* Constraint rows of EQS and EQS_zero *)

\* the entry of variable v in a gradient (0 when the side does not hold v)
GradOf(items, v) ==
    IF \E k \in 1..Len(items) : items[k].var = v
    THEN items[CHOOSE k \in 1..Len(items) : items[k].var = v].val
    ELSE 0

\* sign*(d lhs/dv) - sign*(d rhs/dv)
SignedRow(con, v) ==
    LET sign == IF con.comparator \in {">", ">="} THEN -1 ELSE 1
    IN sign * GradOf(con.lhs, v) - sign * GradOf(con.rhs, v)

\* the row of constraint k of the model
ConRow(k) == Len(W.objs) + k - 1

SetupDone == last.op = "setup" /\ self.err = ""

\* C11: after setup(), the row of each constraint holds
\* sign*(d lhs/dv) - sign*(d rhs/dv) in the EQS_zero column of every parameter
\* v and in the EQS column of every unknown v that is no parameter, with
\* sign = -1 for a greater-than comparator and +1 otherwise; the row of a
\* '>=' constraint is the negation of the row of the same constraint with '<='.
C11_ConstraintRows ==
    SetupDone =>
      /\ \A k \in 1..Len(W.cons) :
            /\ \A j \in 1..Len(self.param_names) :
                  self.EQS_zero[ConRow(k)][j-1]
                      = SignedRow(W.cons[k], self.param_names[j])
            /\ \A v \in Elems(self.var_list) \ Elems(self.param_names) :
                  self.EQS[ConRow(k)][Index(self.var_list, v)]
                      = SignedRow(W.cons[k], v)
      /\ \A k1, k2 \in 1..Len(W.cons) :
            ( /\ W.cons[k1].lhs = W.cons[k2].lhs
              /\ W.cons[k1].rhs = W.cons[k2].rhs
              /\ W.cons[k1].comparator = "<="
              /\ W.cons[k2].comparator = ">=" ) =>
                /\ \A i \in DOMAIN self.EQS[ConRow(k1)] :
                      self.EQS[ConRow(k2)][i] = -self.EQS[ConRow(k1)][i]
                /\ \A j \in DOMAIN self.EQS_zero[ConRow(k1)] :
                      self.EQS_zero[ConRow(k2)][j]
                          = -self.EQS_zero[ConRow(k1)][j]

C11_Witness ==
    /\ InWorld("constrained") /\ SetupDone /\ mode = "direct"
    /\ self.EQS[1] = (0 :> -1 @@ 1 :> -3) /\ self.EQS_zero[1] = (0 :> 3)
    /\ self.EQS[2] = (0 :> 1 @@ 1 :> 3) /\ self.EQS_zero[2] = (0 :> -3)

-----------------------------------------------------------------------------
(* Unit conversion *)

\* connections without their unit conversions
NoUnitsConn(conn) == [t \in DOMAIN conn |-> [conn[t] EXCEPT !.k = 1]]

RECURSIVE NoUnitsWf(_)
NoUnitsWf(wf) ==
    [i \in 1..Len(wf) |->
        [wf[i] EXCEPT !.wf = NoUnitsWf(@), !.conn = NoUnitsConn(@),
                      !.oconn = NoUnitsConn(@)]]

\* the model w with every unit conversion removed
NoUnits(w) == [w EXCEPT !.conn = NoUnitsConn(@), !.top.wf = NoUnitsWf(@)]

\* LHS as one assembly pass builds it for model w from derivatives d
FreshLHS(w, d) == AssemblePass(DoSetup(NewInstance, w, "direct"), w, d).LHS

\* C12: on the model a -> sub(c) -> b whose connections all convert units
\* with factor 2, the LHS entry of each connection is
\* -(local derivative) * (expression derivative) * 2, the local derivative
\* being 1 on the boundary of the sub-model, and every off-diagonal entry is
\* twice the entry the same model gives without conversions.
C12_UnitConversion ==
    (InWorld("units") /\ CalcDirect /\ PassCompleted) =>
        /\ self.LHS[1][0] = -(1 * 2)
        /\ self.LHS[2][1] = -last.d[<<"sub.c", "y", "x">>] * 1 * 2
        /\ self.LHS[3][2] = -(1 * 2)
        /\ self.LHS[4][3] = -last.d[<<"b", "y", "x">>] * 1 * 2
        /\ \A i, j \in DOMAIN self.LHS :
              i # j => self.LHS[i][j] = 2 * FreshLHS(NoUnits(W), last.d)[i][j]

C12_Witness ==
    /\ InWorld("units") /\ CalcDirect /\ PassCompleted
    /\ last.d[<<"b", "y", "x">>] = 3
    /\ self.LHS[4][3] = -6
    /\ FreshLHS(NoUnits(W), last.d)[4][3] = -3

-----------------------------------------------------------------------------
(* The lifecycle of calc_gradient() *)

\* a calc_gradient() that directly follows another one on the same instance
LaterCall == last.op = "calc_gradient" /\ last.again

\* C13: a calc_gradient() that follows an earlier calc_gradient() on the
\* unchanged model, and raises nothing, has not run setup() again.
C13_SetupFirstCallOnly ==
    (LaterCall /\ self.err = "") => ~last.ran_setup

\* C14: in either mode, whenever calc_gradient() reaches the solve, an
\* assembly pass of the same call has populated LHS and RHS before.
C14_AssembleBeforeSolve ==
    (last.op = "calc_gradient" /\ last.solved) => last.assembled

\* the shape of a matrix: its row numbers and the column numbers of each row
Shape(M) == [i \in DOMAIN M |-> DOMAIN M[i]]

\* C15: a setup() that directly follows a setup() on the unchanged model
\* leaves var_list, n_var, the shapes of LHS, RHS, EQS, EQS_zero and gradient
\* and the contents of EQS and EQS_zero as the first call left them.
C15_SetupIdempotent ==
    [][(last.op = "setup" /\ last'.op = "setup") =>
          /\ self'.var_list = self.var_list
          /\ self'.n_var = self.n_var
          /\ Shape(self'.LHS) = Shape(self.LHS)
          /\ Shape(self'.RHS) = Shape(self.RHS)
          /\ Shape(self'.gradient) = Shape(self.gradient)
          /\ self'.EQS = self.EQS
          /\ self'.EQS_zero = self.EQS_zero]_vars

C15_Witness ==
    /\ InWorld("constrained") /\ SetupDone /\ last.again /\ mode = "direct"
    /\ self.EQS[1] = (0 :> -1 @@ 1 :> -3) /\ self.EQS_zero[1] = (0 :> 3)

\* the Variable List of model w enumerated for mode m: outputs in direct
\* mode, inputs in adjoint mode
Enumerated(w, m) ==
    EdgeCounter(w.top.dpath, w.top.wf, IF m = "adjoint" THEN 0 ELSE 1, "",
                w.order, [vl |-> <<>>, ed |-> {}, err |-> ""])

\* calc_gradient() came past its setup step: it assembled or solved
PastSetup == last.op = "calc_gradient" /\ (last.assembled \/ last.solved)

FreshRHS(w, d) == AssemblePass(DoSetup(NewInstance, w, "direct"), w, d).RHS

\* C17: in direct mode, after every assembly pass, whatever calls came
\* before, LHS and RHS are the matrices one pass on freshly zeroed matrices
\* builds from the local derivatives of this call.
C17_RebuiltEachCall ==
    (CalcDirect /\ last.assembled) =>
        /\ self.LHS = FreshLHS(W, last.d)
        /\ self.RHS = FreshRHS(W, last.d)

\* a pass with dy/dx of b equal to 3 after a pass with other derivatives
C17_Witness ==
    /\ InWorld("chain") /\ CalcDirect /\ PassCompleted
    /\ LaterCall /\ last.changed /\ DA = 2 /\ DB = 3
    /\ self.LHS = FromRows(<< <<1, 0>>, <<-3, 1>> >>)

-----------------------------------------------------------------------------
(* Solver couplings *)

\* the solvers of the top scope: the drivers of a workflow and of the
\* workflows of those drivers
RECURSIVE TopSolvers(_)
TopSolvers(wf) ==
    UNION { IF wf[k].kind = "driver"
            THEN {wf[k]} \cup TopSolvers(wf[k].wf)
            ELSE {} : k \in 1..Len(wf) }

\* the roles a solver's equality constraint declares: the independent is the
\* one of its first two variables that is a parameter of the solver, the
\* dependent is the other one
HasIndep(S, comps) ==
    /\ Len(comps) >= 2
    /\ (Contains(S.params, comps[1]) \/ Contains(S.params, comps[2]))

Indep(S, comps) == IF Contains(S.params, comps[1]) THEN comps[1] ELSE comps[2]

Dep(S, comps) == IF Contains(S.params, comps[1]) THEN comps[2] ELSE comps[1]

\* <<component, output, input>> for the inputs called name of the terminal
\* components of the workflow of solver S
InputsCalled(S, name) ==
    { t \in UNION { {<<S.wf[k], o, i>> : o \in Elems(S.wf[k].outs),
                                         i \in Elems(S.wf[k].ins)} :
                    k \in {n \in 1..Len(S.wf) :
                              S.wf[n].kind = "comp" /\ S.wf[n].hasd} } :
        t[1].name \o "." \o t[3] = name /\ ~Contains(W.params, name) }

\* the assembler wrote -(local derivative) for input t of a solver's
\* workflow into the row of the output and the column of unknown col
WroteCoupling(t, col) ==
    \E k \in 1..Len(last.asm.sw) :
        LET w == last.asm.sw[k]
        IN /\ w.inp = t[1].name \o "." \o t[3]
           /\ w.out = t[1].name \o "." \o t[2]
           /\ <<w.row, w.out>> \in Elems(last.asm.rows)
           /\ w.col + 1 \in 1..Len(self.var_list)
           /\ self.var_list[w.col + 1] = col
           /\ w.val = -last.d[<<t[1].path, t[2], t[3]>>]
           /\ self.LHS[w.row][w.col] = w.val

-----------------------------------------------------------------------------
(* Qualified names *)

\* the names of the unknowns below a workflow when every node is qualified
\* with the prefix of its scope: an assembly opens the scope of its own
\* pathname, a solver keeps the prefix of the scope that holds it
RECURSIVE QualifiedNames(_, _, _)
QualifiedNames(wf, prefix, index) ==
    UNION { LET node == wf[k]
                own == {prefix \o node.name \o "." \o v :
                           v \in Elems(Edges(node, index))}
            IN IF node.kind = "assy"
               THEN own \cup {prefix \o node.name \o "." \o v :
                                 v \in Elems(Edges(node, 1 - index))}
                        \cup QualifiedNames(node.wf, node.path \o ".", index)
               ELSE IF node.kind = "driver"
               THEN own \cup QualifiedNames(node.wf, prefix, index)
               ELSE own : k \in 1..Len(wf) }

\* C19: after setup(), every unknown of the Variable List carries the prefix
\* of its scope, the unknowns inside a solver's workflow the same prefix as
\* the siblings of the solver, at every depth.
C19_SolverKeepsPrefix ==
    SetupDone =>
        Elems(self.var_list) = QualifiedNames(W.top.wf, "", ModeIndex(mode))

-----------------------------------------------------------------------------
(* The right-hand side *)

\* the terminal components below a workflow
RECURSIVE AllComps(_)
AllComps(wf) ==
    UNION { IF wf[k].kind = "comp" THEN {wf[k]} ELSE AllComps(wf[k].wf) :
              k \in 1..Len(wf) }

\* unknown is an output of a component that has the parameter among its
\* inputs, both taken by their full paths
DirectlyDownstream(unknown, param) ==
    \E c \in AllComps(W.top.wf) :
        /\ \E o \in Elems(c.outs) : c.path \o "." \o o = unknown
        /\ \E i \in Elems(c.ins) : c.path \o "." \o i = param

\* C20: after an assembly pass, a row of RHS holds an entry in the column of
\* a parameter only when the unknown the row was opened for is directly
\* downstream of that parameter.
C20_RhsOnlyDownstream ==
    (CalcDirect /\ last.assembled) =>
        \A r \in Elems(last.asm.rows) : \A j \in 1..Len(self.param_names) :
            self.RHS[r[1]][j-1] # 0 =>
                DirectlyDownstream(r[2], self.param_names[j])

-----------------------------------------------------------------------------
(* Boundary inputs that are parameters *)

\* <<row, column>> for the boundary inputs of the sub-assemblies of the top
\* workflow that are parameters: the row the pass opened for the input and
\* the column of the parameter
BoundaryParams ==
    { rc \in (0..Len(self.var_list)) \X (0..Len(self.param_names)) :
        \E k \in 1..Len(W.top.wf) : \E i \in Elems(W.top.wf[k].ins) :
            /\ W.top.wf[k].kind = "assy"
            /\ Index(self.param_names, W.top.wf[k].name \o "." \o i) = rc[2]
            /\ <<rc[1], W.top.wf[k].name \o "." \o i>>
                   \in Elems(last.asm.rows) }

HasBoundaryParam ==
    \E k \in 1..Len(W.top.wf) : \E i \in Elems(W.top.wf[k].ins) :
        /\ W.top.wf[k].kind = "assy"
        /\ Contains(W.params, W.top.wf[k].name \o "." \o i)

\* C21: when a boundary input of a sub-model is a parameter, the assembly
\* pass completes without error, the row of that input has diagonal 1 and an
\* entry in the parameter's column of RHS, and that entry is the same
\* whatever the local derivatives of the components of the model are.
C21_BoundaryParameter ==
    (CalcDirect /\ last.assembled /\ HasBoundaryParam) =>
        /\ last.solved
        /\ BoundaryParams # {}
        /\ \A rc \in BoundaryParams :
              /\ self.LHS[rc[1]][rc[1]] = 1
              /\ self.RHS[rc[1]][rc[2]] # 0
              /\ \A d \in [DerivKeys(W.top.wf) -> DerivVals] :
                    FreshRHS(W, d)[rc[1]][rc[2]] = self.RHS[rc[1]][rc[2]]

-----------------------------------------------------------------------------
(* The row counter *)

\* C22: in a direct-mode assembly pass that runs to its end, the rows
\* 0 .. n_var-1 are opened once each, in this order, and the counter the
\* top-level call returns is n_var, the length of the Variable List.
C22_RowCounter ==
    (CalcDirect /\ PassCompleted) =>
        /\ Len(last.asm.rows) = Len(self.var_list)
        /\ \A k \in 1..Len(last.asm.rows) : last.asm.rows[k][1] = k - 1
        /\ last.asm.i_eq = Len(self.var_list)

-----------------------------------------------------------------------------
(* Several inputs fed by one unknown *)

\* the inputs of component c of the top scope, among its first n, that are
\* connected to the unknown src and are no parameters
FedBy(c, src, n) ==
    { i \in 1..n :
        /\ ~Contains(self.param_names, c.name \o "." \o c.ins[i])
        /\ (c.name \o "." \o c.ins[i]) \in DOMAIN W.conn
        /\ W.conn[c.name \o "." \o c.ins[i]].src = src }

\* the sum of the chained terms of output out of c over those inputs
RECURSIVE ChainedSum(_, _, _, _)
ChainedSum(c, out, src, n) ==
    IF n = 0 THEN 0
    ELSE ChainedSum(c, out, src, n - 1)
           + (IF n \in FedBy(c, src, n)
              THEN ChainedEntry(last.d[<<c.path, out, c.ins[n]>>],
                                W.conn[c.name \o "." \o c.ins[n]])
              ELSE 0)

\* C23: after a direct-mode assembly pass that runs to its end, in the row
\* of every output of a terminal component of the top workflow, the entry in
\* the column of another unknown that feeds inputs of the component is the
\* sum of the negated chained terms of all the inputs that unknown feeds.
C23_SummedEntries ==
    (CalcDirect /\ PassCompleted) =>
        \A k \in 1..Len(W.top.wf) :
            (W.top.wf[k].kind = "comp" /\ W.top.wf[k].hasd) =>
                \A o \in Elems(W.top.wf[k].outs) :
                \A r \in Elems(last.asm.rows) :
                \A j \in 1..Len(self.var_list) :
                    ( /\ r[2] = W.top.wf[k].name \o "." \o o
                      /\ j - 1 # r[1]
                      /\ FedBy(W.top.wf[k], self.var_list[j],
                               Len(W.top.wf[k].ins)) # {} ) =>
                        self.LHS[r[1]][j-1]
                            = ChainedSum(W.top.wf[k], o, self.var_list[j],
                                         Len(W.top.wf[k].ins))

====
